---- MODULE Spec2Model ----
(***************************************************************************)
(* Affiliate portal (src/Server.js): accounts, referral clicks, payout     *)
(* requests and the two session identity slots, as a state machine.        *)
(*                                                                         *)
(* Strings the code takes apart (names, referral codes, amounts) are       *)
(* sequences of one-character strings.  An ObjectId is the integer it      *)
(* encodes, so String(id).slice(-4) is the hex rendering of id % 16^4.     *)
(* Handlers whose awaits can interleave with effect (POST /register and    *)
(* ensureAdminUser) are split at their store operations; the others are    *)
(* one action each.  A session slot is written at the step that assigns    *)
(* it.  Under Spec and SpecPayouts a store operation fails by the unique   *)
(* indexes only; under SpecFail any store operation can fail as well.      *)
(***************************************************************************)
EXTENDS Integers, Sequences, FiniteSets, TLC

\* ---------------------------------------------------------------- bounds
NumSessions == 1
NumReqs     == 2
MaxUsers    == 2
MaxClicks   == 2
MaxPayouts  == 2
MaxTime     == 2
NumLow      == 1
RandSteps   == 2
MaxUnanswered == 1
\* the smaller of the two sizes a collection is explored at
FewClicks   == 1
FewPayouts  == 1

\* ------------------------------------------------------- program constants
Last4Mod == 65536
RandBase == 100
RandSpan == 900
\* clock ticks in one local day
DayTicks == 1

Unset == 0

Sessions == 1..NumSessions
Reqs     == 1..NumReqs

TempCode  == <<"t", "e", "m", "p">>
AdminCode == <<"a", "d", "m", "i", "n">>
DefaultName == <<"u", "s", "e", "r">>
AdminName == <<"S", "u", "p", "e", "r", " ", "A", "d", "m", "i", "n">>

\* request inputs
Names     == { <<>>, <<"A", "s", "h", "a", " ", "R", "a", "o">> }
Emails    == { "", "a@x", "b@x" }
Passwords == { "", "p1", "p2" }
RegPasswords == { "", "p1" }
PayoutIds == 1..(MaxPayouts + 1)
AdminRoutes == { "/admin", "/admin/affiliates", "/admin/clicks", "/admin/payouts" }
Amounts   == { <<>>, <<"a", "b", "c">>, <<"-", "5">>, <<"0">>, <<"5">> }
\* form inputs with at most one field left blank
RegisterInputs ==
  { i \in Names \X Emails \X RegPasswords :
      (i[1] # <<>> /\ i[2] # "") \/ (i[1] # <<>> /\ i[3] # "") \/ (i[2] # "" /\ i[3] # "") }
Credentials ==
  { i \in Emails \X Passwords : i[1] # "" \/ i[2] # "" }

\* process.env: ADMIN_EMAIL / ADMIN_PASSWORD, "" when not set
Envs == { [ADMIN_EMAIL |-> "b@x", ADMIN_PASSWORD |-> "p2"],
          [ADMIN_EMAIL |-> "",    ADMIN_PASSWORD |-> "p2"],
          [ADMIN_EMAIL |-> "b@x", ADMIN_PASSWORD |-> ""] }

VARIABLES users, clicks, payouts, sessions, reg, boot, env, now, unanswered

vars == <<users, clicks, payouts, sessions, reg, boot, env, now, unanswered>>
store == <<users, clicks, payouts>>

\* ------------------------------------------------------------- pure helpers
ToLowerCase(c) ==
  CASE c = "A" -> "a"
    [] c = "R" -> "r"
    [] c = "S" -> "s"
    [] OTHER -> c

RECURSIVE FirstToken(_)
FirstToken(s) ==
  IF s = <<>> \/ Head(s) = " " THEN <<>>
  ELSE <<Head(s)>> \o FirstToken(Tail(s))

LowerSeq(s) == [i \in 1..Len(s) |-> ToLowerCase(s[i])]

HexDigit(d) ==
  <<"0", "1", "2", "3", "4", "5", "6", "7", "8", "9", "a", "b", "c", "d", "e", "f">>[d + 1]

Hex4(n) ==
  << HexDigit((n \div 4096) % 16), HexDigit((n \div 256) % 16),
     HexDigit((n \div 16) % 16), HexDigit(n % 16) >>

DecDigit(d) == <<"0", "1", "2", "3", "4", "5", "6", "7", "8", "9">>[d + 1]

RECURSIVE DecString(_)
DecString(n) ==
  IF n < 10 THEN <<DecDigit(n)>>
  ELSE DecString(n \div 10) \o <<DecDigit(n % 10)>>

\* String(id).slice(-4)
SliceLast4(id) == Hex4(id % Last4Mod)

\* Math.floor(100 + Math.random() * 900), Math.random() = k / RandSteps
RandomSuffix(k) == (RandBase * RandSteps + k * RandSpan) \div RandSteps

generateReferralCode(name, id, k) ==
  LET base == LowerSeq(FirstToken(IF name = <<>> THEN DefaultName ELSE name))
  IN  base \o SliceLast4(id) \o DecString(RandomSuffix(k))

\* bcrypt.hash / bcrypt.compare
Hash(password) == <<"$2a$10$", password>>
Compare(password, digest) == digest = Hash(password)

\* Number(amount) for the decimal integers of Amounts; "NaN" otherwise
IsDigit(c) == c \in {"0", "1", "2", "3", "4", "5", "6", "7", "8", "9"}
DigitVal(c) == CHOOSE d \in 0..9 : DecDigit(d) = c

RECURSIVE DigitsVal(_)
DigitsVal(s) ==
  IF s = <<>> THEN 0 ELSE DigitsVal(SubSeq(s, 1, Len(s) - 1)) * 10 + DigitVal(s[Len(s)])

AllDigits(s) == s # <<>> /\ \A i \in 1..Len(s) : IsDigit(s[i])

ToNumber(s) ==
  IF s = <<>> THEN 0
  ELSE IF AllDigits(s) THEN DigitsVal(s)
  ELSE IF Head(s) = "-" /\ AllDigits(Tail(s)) THEN 0 - DigitsVal(Tail(s))
  ELSE "NaN"

IsNaN(s) == ~(s = <<>> \/ AllDigits(s) \/ (Head(s) = "-" /\ AllDigits(Tail(s))))

\* faulty variant: < 0 for <= 0
AmountRejectedNegativeOnly(amount) ==
  \/ amount = <<>>
  \/ IsNaN(amount)
  \/ ToNumber(amount) < 0

\* !amount || isNaN(amount) || Number(amount) <= 0
AmountRejected(amount) ==
  \/ amount = <<>>
  \/ IsNaN(amount)
  \/ ToNumber(amount) <= 0

\* ------------------------------------------------------------------- store
\* faulty variant: the email index is missing
UniqueViolationCodeOnly(coll, doc) ==
  \E u \in coll : u.id # doc.id /\ u.referralCode = doc.referralCode

\* userSchema: unique indexes on email and referralCode
UniqueViolation(coll, doc) ==
  \E u \in coll : u.id # doc.id /\ (u.email = doc.email \/ u.referralCode = doc.referralCode)

\* a fresh ObjectId: distinct from all others, low 16 bits arbitrary
NewIds == { (Cardinality(users) + 1) * Last4Mod + lo : lo \in 0..(NumLow - 1) }

\* faulty variant: the duplicate check looks among affiliates only
FindByEmailAffiliateOnly(email) == { u \in users : u.email = email /\ u.role = "affiliate" }
\* faulty variant: the referral lookup ignores the role
FindByCodeAnyRole(code) == { u \in users : u.referralCode = code }
FindByEmail(email)  == { u \in users : u.email = email }
\* faulty variant: the lookup is not scoped to the role
FindByEmailAnyRole(email, role) == { u \in users : u.email = email }
FindByEmailRole(email, role) == { u \in users : u.email = email /\ u.role = role }
FindByCode(code)    == { u \in users : u.referralCode = code /\ u.role = "affiliate" }
FindById(id)        == { u \in users : u.id = id }

\* { timestamps: true }: an insert at time t sets createdAt and updatedAt
Timestamps(doc, t) ==
  [id |-> doc.id, name |-> doc.name, email |-> doc.email, passwordHash |-> doc.passwordHash,
   referralCode |-> doc.referralCode, role |-> doc.role, createdAt |-> t, updatedAt |-> t]
\* faulty variant: a save moves createdAt as well
TouchBoth(doc, t) == [doc EXCEPT !.createdAt = t, !.updatedAt = t]
\* { timestamps: true }: the save of a modified document at time t sets updatedAt
Touch(doc, t) == [doc EXCEPT !.updatedAt = t]

IdleReq == [pc |-> "idle", sess |-> 1, name |-> <<>>, email |-> "", password |-> "", user |-> Unset]

\* the request slot a new POST /register runs in
FreeReq(r) == reg[r].pc = "idle" /\ \A q \in Reqs : q < r => reg[q].pc # "idle"

\* faulty variant: any identity passes the admin guard
requireAdminAnyIdentity(s) == sessions[s].userId # Unset \/ sessions[s].adminId # Unset
requireAffiliate(s) == sessions[s].userId # Unset
requireAdmin(s)     == sessions[s].adminId # Unset

\* -------------------------------------------------------------------- Init
Init ==
  /\ users = {}
  /\ clicks = <<>>
  /\ payouts = <<>>
  /\ sessions = [s \in Sessions |-> [userId |-> Unset, adminId |-> Unset]]
  /\ reg = [r \in Reqs |-> IdleReq]
  /\ boot = "connect"
  /\ env \in Envs
  /\ now = 1
  /\ unanswered = 0

\* new Date() / Date.now: some time not before the last one read
Dates == now..MaxTime

\* ------------------------------------------------- startup: ensureAdminUser
\* the configuration check and the findOne it is followed by
EnsureAdminFindOne ==
  /\ boot = "connect"
  /\ UNCHANGED <<users, clicks, payouts, sessions, reg, env, now, unanswered>>
  /\ boot' = IF env.ADMIN_EMAIL = "" \/ env.ADMIN_PASSWORD = "" THEN "done"
             ELSE IF FindByEmailRole(env.ADMIN_EMAIL, "admin") = {} THEN "create"
             ELSE "done"

EnsureAdminCreate ==
  /\ boot = "create"
  /\ UNCHANGED <<clicks, payouts, sessions, reg, env, unanswered>>
  /\ \E id \in NewIds :
       LET doc == [id |-> id, name |-> AdminName, email |-> env.ADMIN_EMAIL,
                   passwordHash |-> Hash(env.ADMIN_PASSWORD),
                   referralCode |-> AdminCode, role |-> "admin"]
       IN  IF UniqueViolation(users, doc)
           THEN UNCHANGED <<users, now>>
           ELSE /\ now' \in Dates
                /\ users' = users \cup {Timestamps(doc, now')}
  /\ boot' = "done"

\* the process stops and starts again: the store persists, the in-memory
\* sessions and the requests in flight do not
Restart ==
  /\ UNCHANGED <<users, clicks, payouts, env, now>>
  /\ boot' = "connect"
  /\ sessions' = [s \in Sessions |-> [userId |-> Unset, adminId |-> Unset]]
  /\ reg' = [r \in Reqs |-> IdleReq]
  /\ unanswered' = 0


\* ----------------------------------------------------------- POST /register
\* Each handler is its response (an operator of the state the request meets
\* and its inputs) and its effect (the action).  "" is no response yet.
\* the validation and the findOne it is followed by
RegisterFindOneResponse(name, email, password) ==
  IF name = <<>> \/ email = "" \/ password = "" THEN "render:register:Sab field bhar do."
  ELSE IF FindByEmail(email) # {} THEN "render:register:Ye email already registered hai."
  ELSE ""

RegisterFindOne(r, s, name, email, password) ==
  /\ FreeReq(r)
  /\ UNCHANGED <<users, clicks, payouts, sessions, boot, env, now, unanswered>>
  /\ reg' = IF RegisterFindOneResponse(name, email, password) # ""
            THEN reg
            ELSE [reg EXCEPT ![r] = [pc |-> "create", sess |-> s, name |-> name,
                                     email |-> email, password |-> password, user |-> Unset]]

\* the document User.create is called with
RegisterDoc(r, id) ==
  [id |-> id, name |-> reg[r].name, email |-> reg[r].email,
   passwordHash |-> Hash(reg[r].password), referralCode |-> TempCode, role |-> "affiliate"]

RegisterCreateResponse(r, id) ==
  IF UniqueViolation(users, RegisterDoc(r, id)) THEN "render:register:Error aaya." ELSE ""

RegisterCreate(r) ==
  /\ reg[r].pc = "create"
  /\ UNCHANGED <<clicks, payouts, sessions, boot, env, unanswered>>
  /\ Cardinality(users) < MaxUsers
  /\ \E id \in NewIds :
       IF RegisterCreateResponse(r, id) # ""
       THEN /\ reg' = [reg EXCEPT ![r] = IdleReq]
            /\ UNCHANGED <<users, now>>
       ELSE /\ now' \in Dates
            /\ users' = users \cup {Timestamps(RegisterDoc(r, id), now')}
            /\ reg' = [reg EXCEPT ![r].pc = "save", ![r].user = id]

RegisterUser(r) == CHOOSE u \in users : u.id = reg[r].user

\* user.referralCode = generateReferralCode(user.name, user._id)
RegisterSaveDoc(r, k) ==
  [RegisterUser(r) EXCEPT
     !.referralCode = generateReferralCode(RegisterUser(r).name, RegisterUser(r).id, k)]

RegisterSaveResponse(r, k) ==
  IF UniqueViolation(users, RegisterSaveDoc(r, k))
  THEN "render:register:Error aaya."
  ELSE "redirect:/dashboard"

RegisterSave(r) ==
  /\ reg[r].pc = "save"
  /\ UNCHANGED <<clicks, payouts, boot, env, unanswered>>
  /\ \E k \in 0..(RandSteps - 1) :
       IF RegisterSaveResponse(r, k) = "redirect:/dashboard"
       THEN /\ now' \in Dates
            /\ users' = (users \ {RegisterUser(r)}) \cup {Touch(RegisterSaveDoc(r, k), now')}
            /\ sessions' = [sessions EXCEPT ![reg[r].sess].userId = reg[r].user]
       ELSE UNCHANGED <<users, sessions, now>>
  /\ reg' = [reg EXCEPT ![r] = IdleReq]

\* -------------------------------------------------- POST /login, GET /logout
LoginResponse(email, password) ==
  IF email = "" \/ password = "" THEN "render:login:Email aur password dalo."
  ELSE IF FindByEmailRole(email, "affiliate") = {} THEN "render:login:Galat email ya password."
  ELSE IF ~Compare(password, (CHOOSE u \in FindByEmailRole(email, "affiliate") : TRUE).passwordHash)
       THEN "render:login:Galat email ya password."
  ELSE "redirect:/dashboard"

Login(s, email, password) ==
  /\ UNCHANGED <<users, clicks, payouts, reg, boot, env, now, unanswered>>
  /\ sessions' = IF LoginResponse(email, password) = "redirect:/dashboard"
                 THEN [sessions EXCEPT ![s].userId =
                         (CHOOSE u \in FindByEmailRole(email, "affiliate") : TRUE).id]
                 ELSE sessions

\* faulty variant: logout drops the whole session
LogoutDestroy(s) ==
  /\ UNCHANGED <<users, clicks, payouts, reg, boot, env, now, unanswered>>
  /\ sessions' = [sessions EXCEPT ![s] = [userId |-> Unset, adminId |-> Unset]]

Logout(s) ==
  /\ UNCHANGED <<users, clicks, payouts, reg, boot, env, now, unanswered>>
  /\ sessions' = [sessions EXCEPT ![s].userId = Unset]

LogoutResponse(s) == "redirect:/login"

\* ------------------------------------------- GET /dashboard, POST /payout-request
DashboardResponse(s) ==
  IF ~requireAffiliate(s) THEN "redirect:/login" ELSE "render:dashboard"

\* res.locals.currentUser, as loadSessionData leaves it
currentUser(s) == CHOOSE u \in FindById(sessions[s].userId) : TRUE

\* Click.countDocuments({ affiliate: user._id })
totalClicks(s) ==
  Cardinality({ i \in 1..Len(clicks) : clicks[i].affiliate = currentUser(s).id })

\* new Date() at time t with setHours(0, 0, 0, 0): the first tick of t's day
todayStart(t) == t - ((t - 1) % DayTicks)

\* Click.countDocuments({ affiliate: user._id, createdAt: { $gte: todayStart } })
todayClicks(s, t) ==
  Cardinality({ i \in 1..Len(clicks) :
                  clicks[i].affiliate = currentUser(s).id /\ clicks[i].createdAt >= todayStart(t) })

\* PayoutRequest.find({ affiliate: user._id }).sort({ createdAt: -1 }): the
\* ids found, newest first, ties in any order
SortedFind(id) ==
  LET found == { i \in 1..Len(payouts) : payouts[i].affiliate = id }
  IN  { f \in [1..Cardinality(found) -> found] :
          /\ \A i, j \in 1..Cardinality(found) : i # j => f[i] # f[j]
          /\ \A i, j \in 1..Cardinality(found) :
                i < j => payouts[f[i]].createdAt >= payouts[f[j]].createdAt }

\* what res.render("dashboard", ...) is given when the handler runs at time t
DashboardViews(s, t) ==
  { [referralLink |-> currentUser(s).referralCode,
     totalClicks |-> totalClicks(s),
     todayClicks |-> todayClicks(s, t),
     payouts |-> list] : list \in SortedFind(currentUser(s).id) }

Dashboard(s) ==
  /\ UNCHANGED vars
  /\ IF ~requireAffiliate(s)
     THEN DashboardResponse(s) = "redirect:/login"
     ELSE /\ DashboardResponse(s) = "render:dashboard"
          /\ \E t \in Dates : DashboardViews(s, t) # {}

PayoutRequestResponse(s, amount) ==
  IF ~requireAffiliate(s) THEN "redirect:/login" ELSE "redirect:/dashboard"

PayoutRequest(s, amount) ==
  /\ UNCHANGED <<users, clicks, sessions, reg, boot, env, unanswered>>
  /\ IF ~requireAffiliate(s) \/ AmountRejected(amount)
     THEN UNCHANGED <<payouts, now>>
     ELSE /\ Len(payouts) < MaxPayouts
          /\ now' \in Dates
          /\ payouts' = Append(payouts,
               [affiliate |-> sessions[s].userId, amount |-> ToNumber(amount),
                status |-> "pending", createdAt |-> now', processedAt |-> Unset])

\* ----------------------------------------------------------------- GET /r/:code
ClickResponse(code) ==
  IF FindByCode(code) = {} THEN "404:Invalid referral link" ELSE "200:You clicked referral"

Click(code) ==
  /\ UNCHANGED <<users, payouts, sessions, reg, boot, env, unanswered>>
  /\ IF FindByCode(code) = {}
     THEN UNCHANGED <<clicks, now>>
     ELSE /\ Len(clicks) < MaxClicks
          /\ now' \in Dates
          /\ clicks' = Append(clicks,
               [affiliate |-> (CHOOSE u \in FindByCode(code) : TRUE).id, createdAt |-> now'])

\* ------------------------------------------------------------------- admin auth
AdminLoginResponse(email, password) ==
  IF FindByEmailRole(email, "admin") = {} THEN "render:admin-login:Admin not found"
  ELSE IF ~Compare(password, (CHOOSE u \in FindByEmailRole(email, "admin") : TRUE).passwordHash)
       THEN "render:admin-login:Wrong password"
  ELSE "redirect:/admin"

\* faulty variant: a successful admin login starts the session afresh
AdminLoginRegenerate(s, email, password) ==
  /\ UNCHANGED <<users, clicks, payouts, reg, boot, env, now, unanswered>>
  /\ sessions' = IF AdminLoginResponse(email, password) = "redirect:/admin"
                 THEN [sessions EXCEPT ![s] =
                         [userId |-> Unset,
                          adminId |-> (CHOOSE u \in FindByEmailRole(email, "admin") : TRUE).id]]
                 ELSE sessions

AdminLogin(s, email, password) ==
  /\ UNCHANGED <<users, clicks, payouts, reg, boot, env, now, unanswered>>
  /\ sessions' = IF AdminLoginResponse(email, password) = "redirect:/admin"
                 THEN [sessions EXCEPT ![s].adminId =
                         (CHOOSE u \in FindByEmailRole(email, "admin") : TRUE).id]
                 ELSE sessions

AdminLogout(s) ==
  /\ UNCHANGED <<users, clicks, payouts, reg, boot, env, now, unanswered>>
  /\ sessions' = [sessions EXCEPT ![s].adminId = Unset]

AdminLogoutResponse(s) == "redirect:/admin/login"

\* -------------------------------------------------------------- admin dashboard
AdminGetResponse(s, route) ==
  IF ~requireAdmin(s) THEN "redirect:/admin/login" ELSE "render:admin"

AdminGet(s, route) ==
  /\ AdminGetResponse(s, route) \in {"redirect:/admin/login", "render:admin"}
  /\ UNCHANGED vars

\* faulty variant: the update leaves processedAt out
UpdateStatusOnly(coll, id, status, date) ==
  IF id \in 1..Len(coll) THEN [coll EXCEPT ![id].status = status] ELSE coll

\* faulty variant: the update is applied to every document (updateMany)
UpdateMany(coll, id, status, date) ==
  [i \in 1..Len(coll) |-> [coll[i] EXCEPT !.status = status, !.processedAt = date]]

\* PayoutRequest.findByIdAndUpdate(id, {status, processedAt: new Date()})
FindByIdAndUpdate(coll, id, status, date) ==
  IF id \in 1..Len(coll)
  THEN [coll EXCEPT ![id].status = status, ![id].processedAt = date]
  ELSE coll

AdjudicateResponse(s, id) ==
  IF ~requireAdmin(s) THEN "redirect:/admin/login" ELSE "redirect:/admin/payouts"

Approve(s, id) ==
  /\ UNCHANGED <<users, clicks, sessions, reg, boot, env, unanswered>>
  /\ IF ~requireAdmin(s)
     THEN UNCHANGED <<payouts, now>>
     ELSE /\ now' \in Dates
          /\ payouts' = FindByIdAndUpdate(payouts, id, "approved", now')

Reject(s, id) ==
  /\ UNCHANGED <<users, clicks, sessions, reg, boot, env, unanswered>>
  /\ IF ~requireAdmin(s)
     THEN UNCHANGED <<payouts, now>>
     ELSE /\ now' \in Dates
          /\ payouts' = FindByIdAndUpdate(payouts, id, "rejected", now')

ClickCodes == { TempCode, AdminCode } \cup { u.referralCode : u \in users }

\* the requests and the startup steps, in any order, while the store holds at
\* most mc ClickEvents and mp PayoutRequests
NextWithin(mc, mp) ==
  \/ EnsureAdminFindOne
  \/ EnsureAdminCreate
  \/ Restart
  \/ \E r \in Reqs, s \in Sessions, i \in RegisterInputs :
       RegisterFindOne(r, s, i[1], i[2], i[3])
  \/ \E r \in Reqs : RegisterCreate(r)
  \/ \E r \in Reqs : RegisterSave(r)
  \/ \E s \in Sessions, c \in Credentials : Login(s, c[1], c[2])
  \/ \E s \in Sessions : Logout(s)
  \/ \E s \in Sessions : Dashboard(s)
  \/ \E s \in Sessions, amount \in Amounts :
       PayoutRequest(s, amount) /\ Len(payouts') <= mp
  \/ \E code \in ClickCodes : Click(code) /\ Len(clicks') <= mc
  \/ \E s \in Sessions, c \in Credentials : AdminLogin(s, c[1], c[2])
  \/ \E s \in Sessions : AdminLogout(s)
  \/ \E s \in Sessions, route \in AdminRoutes : AdminGet(s, route)
  \/ \E s \in Sessions, id \in PayoutIds : Approve(s, id)
  \/ \E s \in Sessions, id \in PayoutIds : Reject(s, id)


\* two ClickEvents next to one PayoutRequest
Next == NextWithin(MaxClicks, FewPayouts)
Spec == Init /\ [][Next]_vars

\* one ClickEvent next to two PayoutRequests
NextPayouts == NextWithin(FewClicks, MaxPayouts)
SpecPayouts == Init /\ [][NextPayouts]_vars

\* ----------------------------------------------------------- store failures
\* A store operation can also fail for a reason outside the data (the
\* connection is lost, the server is down): the awaited promise rejects.
Running == boot # "exit"

\* POST /register and POST /login await inside try/catch
RegisterFailResponse == "render:register:Error aaya."
LoginFailResponse == "render:login:Kuch galat ho gaya."

\* The other handlers and loadSessionData await outside any try/catch, so the
\* rejection leaves the async function unhandled.  What follows is the
\* framework's and the runtime's doing, and src/ pins neither: the rejection
\* is forwarded to the error handler, which answers 500; or it is dropped and
\* the request never gets a response; or the unhandled rejection ends the
\* process.
UnhandledOutcomes == { "500:Internal Server Error", "no response", "exit" }

Unhandled(outcome) ==
  /\ UNCHANGED <<users, clicks, payouts, env, now>>
  /\ CASE outcome = "exit" ->
            /\ boot' = "exit"
            /\ sessions' = [s \in Sessions |-> [userId |-> Unset, adminId |-> Unset]]
            /\ reg' = [r \in Reqs |-> IdleReq]
            /\ unanswered' = 0
       [] outcome = "no response" ->
            /\ unanswered < MaxUnanswered
            /\ unanswered' = unanswered + 1
            /\ UNCHANGED <<sessions, reg, boot>>
       [] OTHER -> UNCHANGED <<sessions, reg, boot, unanswered>>

\* ensureAdminUser: the rejection is caught and logged by the connect chain
EnsureAdminFails ==
  /\ \/ boot = "create"
     \/ boot = "connect" /\ env.ADMIN_EMAIL # "" /\ env.ADMIN_PASSWORD # ""
  /\ UNCHANGED <<users, clicks, payouts, sessions, reg, env, now, unanswered>>
  /\ boot' = "done"

\* loadSessionData: User.findById for a slot that is set
LoadSessionDataFails(s, outcome) ==
  /\ Running
  /\ sessions[s].userId # Unset \/ sessions[s].adminId # Unset
  /\ Unhandled(outcome)

\* POST /register: User.findOne rejects
RegisterFindOneFails(name, email, password) ==
  /\ Running
  /\ name # <<>> /\ email # "" /\ password # ""
  /\ RegisterFailResponse = "render:register:Error aaya."
  /\ UNCHANGED vars

\* POST /register: User.create rejects
RegisterCreateFails(r) ==
  /\ Running
  /\ reg[r].pc = "create"
  /\ UNCHANGED <<users, clicks, payouts, sessions, boot, env, now, unanswered>>
  /\ reg' = [reg EXCEPT ![r] = IdleReq]

\* POST /register: user.save() rejects; the account keeps the placeholder
RegisterSaveFails(r) ==
  /\ Running
  /\ reg[r].pc = "save"
  /\ UNCHANGED <<users, clicks, payouts, sessions, boot, env, now, unanswered>>
  /\ reg' = [reg EXCEPT ![r] = IdleReq]

\* POST /login: User.findOne rejects
LoginFails(email, password) ==
  /\ Running
  /\ email # "" /\ password # ""
  /\ LoginFailResponse = "render:login:Kuch galat ho gaya."
  /\ UNCHANGED vars

\* GET /dashboard: a countDocuments or the find rejects
DashboardFails(s, outcome) ==
  /\ Running
  /\ requireAffiliate(s)
  /\ Unhandled(outcome)

\* POST /payout-request: PayoutRequest.create rejects
PayoutRequestFails(s, amount, outcome) ==
  /\ Running
  /\ requireAffiliate(s)
  /\ ~AmountRejected(amount)
  /\ Unhandled(outcome)

\* GET /r/:code: User.findOne or Click.create rejects
ClickFails(outcome) ==
  /\ Running
  /\ Unhandled(outcome)

\* POST /admin/login: User.findOne rejects
AdminLoginFails(outcome) ==
  /\ Running
  /\ Unhandled(outcome)

\* GET /admin, /admin/affiliates, /admin/clicks, /admin/payouts: a query rejects
AdminGetFails(s, route, outcome) ==
  /\ Running
  /\ requireAdmin(s)
  /\ Unhandled(outcome)

\* POST /admin/payouts/:id/approve, /reject: findByIdAndUpdate rejects
AdjudicateFails(s, id, outcome) ==
  /\ Running
  /\ requireAdmin(s)
  /\ Unhandled(outcome)

\* the program with store operations that can fail; a process that has
\* exited serves nothing until it is started again
NextFail ==
  \/ Running /\ NextWithin(FewClicks, FewPayouts)
  \/ ~Running /\ Restart
  \/ EnsureAdminFails
  \/ \E s \in Sessions, outcome \in UnhandledOutcomes : LoadSessionDataFails(s, outcome)
  \/ \E i \in RegisterInputs : RegisterFindOneFails(i[1], i[2], i[3])
  \/ \E r \in Reqs : RegisterCreateFails(r)
  \/ \E r \in Reqs : RegisterSaveFails(r)
  \/ \E c \in Credentials : LoginFails(c[1], c[2])
  \/ \E s \in Sessions, outcome \in UnhandledOutcomes : DashboardFails(s, outcome)
  \/ \E s \in Sessions, amount \in Amounts, outcome \in UnhandledOutcomes :
       PayoutRequestFails(s, amount, outcome)
  \/ \E outcome \in UnhandledOutcomes : ClickFails(outcome)
  \/ \E outcome \in UnhandledOutcomes : AdminLoginFails(outcome)
  \/ \E s \in Sessions, route \in AdminRoutes, outcome \in UnhandledOutcomes :
       AdminGetFails(s, route, outcome)
  \/ \E s \in Sessions, id \in PayoutIds, outcome \in UnhandledOutcomes :
       AdjudicateFails(s, id, outcome)

SpecFail == Init /\ [][NextFail]_vars

\* ------------------------------------------------------------------ claims
EmailHeld(email) == \E u \in users : u.email = email
ValidName == <<"A", "s", "h", "a", " ", "R", "a", "o">>
DuplicateEmailError == "render:register:Ye email already registered hai."
PayoutIndexes == 1..Len(payouts)
ClickCount(cs, id) == Cardinality({ i \in 1..Len(cs) : cs[i].affiliate = id })

\* C1: once a PayoutRequest is approved or rejected its status never changes
\* again, and a pending one only becomes approved or rejected.
C1_StatusTerminal ==
  [][\A i \in PayoutIndexes :
       /\ payouts[i].status # "pending" => payouts'[i].status = payouts[i].status
       /\ payouts'[i].status # payouts[i].status
            => payouts'[i].status \in {"approved", "rejected"}]_vars

\* C2: processedAt is written once: after it is set, no approve or reject
\* request gives it another value.
C2_ProcessedAtWrittenOnce ==
  [][\A i \in PayoutIndexes :
       payouts[i].processedAt # Unset
         => payouts'[i].processedAt = payouts[i].processedAt]_vars

\* C3: POST /register with non-blank fields and an email some account already
\* holds (whatever its role) answers the duplicate-email error and ends there:
\* no account is created, no registration stays in flight, the session keeps
\* its affiliate slot.
C3_DuplicateEmailRejected ==
  /\ [](\A email \in Emails \ {""} :
          EmailHeld(email)
            => RegisterFindOneResponse(ValidName, email, "p1") = DuplicateEmailError)
  /\ [][(users' # users \/ reg' # reg \/ sessions' # sessions)
          => \A r \in Reqs, s \in Sessions, email \in Emails \ {""} :
               (EmailHeld(email) /\ RegisterFindOne(r, s, ValidName, email, "p1"))
                 => /\ users' = users
                    /\ reg' = reg
                    /\ sessions' = sessions]_vars

C3_Witness ==
  /\ \E u \in users : u.role = "admin" /\ u.email = "b@x"
  /\ \E u \in users : u.role = "affiliate" /\ u.email = "a@x"
  /\ \E r \in Reqs : FreeReq(r)

\* C4: no two accounts share an email, whatever their roles.
C4_EmailUnique ==
  \A u \in users, v \in users : u.email = v.email => u = v

\* a registration that passed its findOne before another request created an
\* account with its email, and likewise the admin bootstrap
C4_Witness ==
  /\ \E r \in Reqs : reg[r].pc = "create" /\ EmailHeld(reg[r].email)
  /\ boot = "create" /\ EmailHeld(env.ADMIN_EMAIL)

\* C5: the account a registration results in has a referral code no other
\* account has, equal to lowercase(first token of name) + last 4 characters
\* of the id + a number in 100..999, and not the placeholder.
C5_ReferralCodeFinal ==
  [][\A r \in Reqs :
       RegisterSave(r)
         => \E u \in users' :
              /\ u.id = reg[r].user
              /\ u.referralCode # TempCode
              /\ \E n \in RandBase..(RandBase + RandSpan - 1) :
                   u.referralCode =
                     LowerSeq(FirstToken(u.name)) \o SliceLast4(u.id) \o DecString(n)
              /\ \A v \in users' : v.id # u.id => v.referralCode # u.referralCode]_vars

\* C6: a registration with non-blank fields whose email no account holds
\* creates one new affiliate account and sets the session's affiliate slot
\* to its id, whatever else is in progress.
C6_RegistrationSucceeds ==
  [][/\ \A r \in Reqs :
          (RegisterCreate(r) /\ ~EmailHeld(reg[r].email))
            => \E u \in users' \ users :
                 /\ users' = users \cup {u}
                 /\ u.role = "affiliate"
                 /\ u.email = reg[r].email
     /\ \A r \in Reqs :
          RegisterSave(r) => sessions'[reg[r].sess].userId = reg[r].user]_vars

\* C7: GET /r/:code with a code that is no affiliate's referral code answers
\* 404 and creates no ClickEvent; with an affiliate's code it creates exactly
\* one, for that affiliate, and no other affiliate's count changes.
C7_ClickAttribution ==
  /\ [](\A code \in ClickCodes :
          (~\E u \in users : u.role = "affiliate" /\ u.referralCode = code)
            => ClickResponse(code) = "404:Invalid referral link")
  /\ [][clicks' # clicks
          => \A code \in ClickCodes :
               Click(code)
                 => \E u \in users :
                      /\ u.role = "affiliate" /\ u.referralCode = code
                      /\ Len(clicks') = Len(clicks) + 1
                      /\ clicks'[Len(clicks')].affiliate = u.id
                      /\ SubSeq(clicks', 1, Len(clicks)) = clicks
                      /\ \A v \in users :
                           v.id # u.id
                             => ClickCount(clicks', v.id) = ClickCount(clicks, v.id)]_vars

C7_Witness ==
  /\ Len(clicks) = 2
  /\ clicks[1].affiliate # clicks[2].affiliate

\* C8: POST /payout-request from an affiliate session creates nothing when the
\* amount is missing, non-numeric or <= 0, and otherwise exactly one pending
\* PayoutRequest with the amount, processedAt unset and the session's
\* affiliate; so every PayoutRequest has amount > 0.
C8_PayoutRequestCreation ==
  [][payouts' # payouts
       => /\ \A s \in Sessions, amount \in Amounts :
               (sessions[s].userId # Unset /\ PayoutRequest(s, amount))
                 => /\ amount \notin { <<>>, <<"a", "b", "c">>, <<"-", "5">>, <<"0">> }
                    /\ amount = <<"5">>
                    /\ Len(payouts') = Len(payouts) + 1
                    /\ SubSeq(payouts', 1, Len(payouts)) = payouts
                    /\ payouts'[Len(payouts')].affiliate = sessions[s].userId
                    /\ payouts'[Len(payouts')].amount = 5
                    /\ payouts'[Len(payouts')].status = "pending"
                    /\ payouts'[Len(payouts')].processedAt = Unset
          /\ \A i \in 1..Len(payouts') : payouts'[i].amount > 0]_vars

C8_Witness ==
  /\ Len(payouts) = FewPayouts
  /\ \A i \in PayoutIndexes : payouts[i].status = "pending" /\ payouts[i].amount = 5

\* C9: without an affiliate slot the affiliate routes redirect to /login and
\* change no stored data; without an admin slot the admin routes redirect to
\* /admin/login and change no stored data; the other slot does not matter.
\* So a PayoutRequest's status changes only while a session has an admin slot.
C9_GuardsProtect ==
  /\ [](\A s \in Sessions :
          /\ sessions[s].userId = Unset
               => /\ DashboardResponse(s) = "redirect:/login"
                  /\ \A amount \in Amounts :
                       PayoutRequestResponse(s, amount) = "redirect:/login"
          /\ sessions[s].adminId = Unset
               => /\ \A route \in AdminRoutes :
                       AdminGetResponse(s, route) = "redirect:/admin/login"
                  /\ \A id \in PayoutIds :
                       AdjudicateResponse(s, id) = "redirect:/admin/login")
  /\ [][~UNCHANGED store
          => /\ \A s \in Sessions :
                  sessions[s].userId = Unset
                    => \A amount \in Amounts : ~PayoutRequest(s, amount)
             /\ \A s \in Sessions :
                  sessions[s].adminId = Unset
                    => \A id \in PayoutIds : ~(Approve(s, id) \/ Reject(s, id))
             /\ (\E i \in PayoutIndexes : payouts'[i].status # payouts[i].status)
                  => \E s \in Sessions : sessions[s].adminId # Unset]_vars

\* an affiliate-only session meets a pending payout
C9_Witness ==
  \E s \in Sessions :
    /\ sessions[s].userId # Unset
    /\ sessions[s].adminId = Unset
    /\ \E u \in users : u.role = "admin"
    /\ \E i \in PayoutIndexes : payouts[i].status = "pending"

\* C10: GET /logout unsets the affiliate slot only, GET /admin/logout the admin
\* slot only, neither touches the store; once the affiliate slot is unset the
\* affiliate routes redirect to /login, and only a login or a registration
\* sets it again.
C10_LogoutFrame ==
  /\ [](\A s \in Sessions :
          sessions[s].userId = Unset => DashboardResponse(s) = "redirect:/login")
  /\ [][sessions' # sessions => \A s \in Sessions :
          /\ Logout(s)
               => /\ sessions'[s].userId = Unset
                  /\ sessions'[s].adminId = sessions[s].adminId
                  /\ UNCHANGED store
          /\ AdminLogout(s)
               => /\ sessions'[s].adminId = Unset
                  /\ sessions'[s].userId = sessions[s].userId
                  /\ UNCHANGED store
          /\ (sessions[s].userId = Unset /\ sessions'[s].userId # Unset)
               => \/ \E c \in Credentials : Login(s, c[1], c[2])
                  \/ \E r \in Reqs : RegisterSave(r)]_vars

\* both slots were set and the affiliate one is unset again
C10_Witness ==
  \E s \in Sessions :
    /\ sessions[s].userId = Unset
    /\ sessions[s].adminId # Unset
    /\ \E u \in users : u.role = "affiliate"
    /\ Len(payouts) > 0

\* the password an account was created with
PasswordOf(u) == u.passwordHash[2]
\* credentials no account of the role answers to: unknown email or wrong password
BadCredentials(email, password, role) ==
  ~\E u \in users : u.email = email /\ u.role = role /\ PasswordOf(u) = password

\* C11: a session's affiliate slot, when set, holds the id of an existing
\* affiliate account and its admin slot the id of an existing admin account;
\* POST /login with an admin account's own email and password is refused and
\* sets no slot; a login with an unknown email or a wrong password leaves both
\* slots as they were.
C11_SlotsHoldTheirRole ==
  /\ [](\A s \in Sessions :
          /\ sessions[s].userId # Unset
               => \E u \in users : u.id = sessions[s].userId /\ u.role = "affiliate"
          /\ sessions[s].adminId # Unset
               => \E u \in users : u.id = sessions[s].adminId /\ u.role = "admin")
  /\ [](\A u \in users :
          u.role = "admin"
            => LoginResponse(u.email, PasswordOf(u)) = "render:login:Galat email ya password.")
  /\ [][sessions' # sessions
          => \A s \in Sessions, c \in Credentials :
               /\ (\E u \in users : u.role = "admin" /\ u.email = c[1])
                    => ~Login(s, c[1], c[2])
               /\ BadCredentials(c[1], c[2], "affiliate") => ~Login(s, c[1], c[2])
               /\ BadCredentials(c[1], c[2], "admin") => ~AdminLogin(s, c[1], c[2])]_vars

\* an admin account whose credentials POST /login can be given, next to an
\* affiliate session
C11_Witness ==
  /\ \E u \in users : u.role = "admin" /\ <<u.email, PasswordOf(u)>> \in Credentials
  /\ \E s \in Sessions : sessions[s].userId # Unset /\ sessions[s].adminId = Unset
  /\ Len(clicks) = 0

ConfigPresent == env.ADMIN_EMAIL # "" /\ env.ADMIN_PASSWORD # ""
ConfiguredAdmins == { u \in users : u.role = "admin" /\ u.email = env.ADMIN_EMAIL }

\* C12: ensureAdminUser with both configuration values present leaves the
\* store unchanged when an admin account with the configured email exists, and
\* otherwise creates exactly one account with that email, role admin and
\* referral code "admin", whatever the store holds; however often it runs
\* there is exactly one such account afterwards; with a configuration value
\* absent it changes nothing.
C12_EnsureAdminIdempotent ==
  /\ []((boot = "done" /\ ConfigPresent) => Cardinality(ConfiguredAdmins) = 1)
  /\ [][/\ EnsureAdminFindOne
             => /\ UNCHANGED store
                /\ (~ConfigPresent \/ ConfiguredAdmins # {}) => boot' = "done"
        /\ EnsureAdminCreate
             => IF ~ConfigPresent \/ ConfiguredAdmins # {}
                THEN UNCHANGED store
                ELSE \E u \in users' \ users :
                       /\ users' = users \cup {u}
                       /\ u.email = env.ADMIN_EMAIL
                       /\ u.role = "admin"
                       /\ u.referralCode = AdminCode
                       /\ UNCHANGED <<clicks, payouts>>]_vars

AffiliatePayouts(id) == { i \in PayoutIndexes : payouts[i].affiliate = id }

\* C13: GET /dashboard for an affiliate session reports as totalClicks the
\* number of ClickEvents of that affiliate and as payout list exactly the
\* PayoutRequests of that affiliate; directly after a successful registration
\* it reports totalClicks 0, todayClicks 0 and an empty payout list.
C13_DashboardReports ==
  /\ [](\A s \in Sessions :
          requireAffiliate(s)
            => \A t \in Dates : \A v \in DashboardViews(s, t) :
                 /\ v.totalClicks = ClickCount(clicks, sessions[s].userId)
                 /\ { v.payouts[i] : i \in 1..Len(v.payouts) }
                      = AffiliatePayouts(sessions[s].userId)
                 /\ Len(v.payouts) = Cardinality(AffiliatePayouts(sessions[s].userId)))
  /\ [][users' # users
          => \A r \in Reqs :
               (reg[r].pc = "save" /\ RegisterSave(r))
                 => (\A t \in Dates : \A v \in DashboardViews(reg[r].sess, t) :
                       /\ v.totalClicks = 0
                       /\ v.todayClicks = 0
                       /\ v.payouts = <<>>)']_vars

\* C14: POST /register and POST /login change only the affiliate slot of their
\* session and POST /admin/login only the admin slot; a session can so hold an
\* affiliate id and an admin id together, and it is then served both the
\* affiliate routes and the admin routes.
C14_IndependentSlots ==
  /\ [](\A s \in Sessions :
          (sessions[s].userId # Unset /\ sessions[s].adminId # Unset)
            => /\ DashboardResponse(s) = "render:dashboard"
               /\ \A t \in Dates : DashboardViews(s, t) # {}
               /\ \A amount \in Amounts : PayoutRequestResponse(s, amount) = "redirect:/dashboard"
               /\ \A route \in AdminRoutes : AdminGetResponse(s, route) = "render:admin"
               /\ \A id \in PayoutIds : AdjudicateResponse(s, id) = "redirect:/admin/payouts")
  /\ [][sessions' # sessions
          => \A s \in Sessions :
               /\ ((\E c \in Credentials : Login(s, c[1], c[2]))
                     \/ (\E r \in Reqs : reg[r].pc = "save" /\ reg[r].sess = s /\ RegisterSave(r)))
                    => /\ sessions'[s].adminId = sessions[s].adminId
                       /\ \A o \in Sessions \ {s} : sessions'[o] = sessions[o]
               /\ (\E c \in Credentials : AdminLogin(s, c[1], c[2]))
                    => /\ sessions'[s].userId = sessions[s].userId
                       /\ \A o \in Sessions \ {s} : sessions'[o] = sessions[o]]_vars

\* one session holds both identities
C14_Witness ==
  \E s \in Sessions :
    /\ sessions[s].userId # Unset
    /\ sessions[s].adminId # Unset
    /\ \E i \in PayoutIndexes : payouts[i].affiliate = sessions[s].userId

\* C15: an approve or reject request for payout id P changes only the status
\* and processedAt of P: P's amount, affiliate and createdAt, every other
\* PayoutRequest, every account and every ClickEvent stay as they are; when no
\* PayoutRequest has id P the store does not change and none is created.
C15_AdjudicationFrame ==
  [][\A s \in Sessions, id \in PayoutIds :
       (requireAdmin(s) /\ (Approve(s, id) \/ Reject(s, id)))
         => /\ users' = users
            /\ clicks' = clicks
            /\ Len(payouts') = Len(payouts)
            /\ \A i \in PayoutIndexes : i # id => payouts'[i] = payouts[i]
            /\ id \in PayoutIndexes
                 => /\ payouts'[id].amount = payouts[id].amount
                    /\ payouts'[id].affiliate = payouts[id].affiliate
                    /\ payouts'[id].createdAt = payouts[id].createdAt
            /\ id \notin PayoutIndexes => payouts' = payouts]_vars

\* one of two PayoutRequests was adjudicated, at a later time than both were
\* created, and the other is still pending
C15_Witness ==
  /\ Len(payouts) = 2
  /\ payouts[1].status = "approved"
  /\ payouts[1].processedAt > payouts[1].createdAt
  /\ payouts[2].status = "pending"
  /\ Len(clicks) > 0

\* C16: a PayoutRequest has processedAt set exactly when its status is
\* approved or rejected, and unset exactly while it is pending.
C16_ProcessedAtIffAdjudicated ==
  \A i \in PayoutIndexes :
    payouts[i].processedAt # Unset <=> payouts[i].status \in {"approved", "rejected"}

C16_Witness ==
  /\ Len(payouts) = 2
  /\ payouts[1].status = "pending" /\ payouts[1].processedAt = Unset
  /\ payouts[2].status = "rejected" /\ payouts[2].processedAt # Unset

\* the account with u's id after the step
Successors(u) == { v \in users' : v.id = u.id }
\* the step is the user.save() of the registration that created account u
SavedByItsRegistration(u) ==
  \E r \in Reqs : reg[r].pc = "save" /\ reg[r].user = u.id /\ RegisterSave(r)

\* C17 as stated: the set of accounts only grows, no account's role or email
\* changes, and the only field of an existing account that any step writes is
\* referralCode, written by the registration that created the account.
C17_OnlyReferralCodeWritten ==
  [][users' # users
       => \A u \in users :
            /\ Cardinality(Successors(u)) = 1
            /\ \A v \in Successors(u) :
                 /\ v.role = u.role
                 /\ v.email = u.email
                 /\ [v EXCEPT !.referralCode = u.referralCode] = u
                 /\ v # u => SavedByItsRegistration(u)]_vars

\* C17 (amended): the set of accounts only grows, no account's role or email
\* changes, and the only fields of an existing account that any step writes
\* are referralCode and the store-maintained updatedAt, both written by the
\* registration that created the account.
C17_AccountsOnlyGrow ==
  [][users' # users
       => \A u \in users :
            /\ Cardinality(Successors(u)) = 1
            /\ \A v \in Successors(u) :
                 /\ v.role = u.role
                 /\ v.email = u.email
                 /\ [v EXCEPT !.referralCode = u.referralCode, !.updatedAt = u.updatedAt] = u
                 /\ v # u => SavedByItsRegistration(u)]_vars

\* an account whose registration saved it later than it created it, next to
\* the admin account
C17_Witness ==
  /\ \E u \in users :
       u.role = "affiliate" /\ u.referralCode # TempCode /\ u.updatedAt > u.createdAt
  /\ \E u \in users : u.role = "admin"

\* C18: when a store operation fails during a request, whichever handler or
\* middleware it is in, the request still gets a response that reports the
\* failure, and the requests after it are served: no request is left
\* unanswered and the process keeps running.
C18_FailuresAreReported ==
  /\ unanswered = 0
  /\ Running
====
